---------------------------- MODULE Spec2Model ----------------------------
(***************************************************************************)
(* LinguaPerdita: procedural language generation (generate_language).      *)
(*                                                                         *)
(* The generator is one function that consumes a seeded random stream.     *)
(* Every draw from the stream (shuffle, randint, random, choice) is an     *)
(* action whose outcome is chosen with \E; the deterministic code between  *)
(* two draws belongs to the action of the draw that precedes it.           *)
(*                                                                         *)
(* Ids are modelled by the number they are formatted from: word_07 is 7,   *)
(* root_02 is 2, text_01 is 1 (the formatting "%02d" is injective).        *)
(* The tuning tables of constants.py are far too large to enumerate (30    *)
(* words over a 26 letter alphabet), so the model runs the same code over  *)
(* a family of small configurations, Configs, chosen in Init.              *)
(*                                                                         *)
(* GameSpec starts from the languages the generator can return for one     *)
(* small configuration and plays the game that build_definition builds     *)
(* from them: purchases of words, texts and the text efficiency upgrade,   *)
(* and ticks.  CostSpec runs the cost computation and the cost sort alone  *)
(* over the shipped tables, which need no enumeration of the meanings.     *)
(***************************************************************************)
EXTENDS Integers, Sequences, FiniteSets, TLC

VARIABLES
    cfg,              \* the tuning tables of constants.py in force
    pc,               \* position in generate_language
    all_words,        \* list[Word]
    word_index,       \* running word counter
    used_meanings,    \* set[str]
    used_glyphs,      \* set[tuple[int, ...]]
    ci,               \* index of the category being generated (1-based)
    unique_meanings,  \* meanings picked for the current category
    i,                \* index of the word inside its category (0-based)
    glyph_count,      \* length drawn for the current word
    attempt,          \* _attempt of the retry loop (0-based)
    roots,            \* list[Root]
    model,            \* the LanguageModel being built
    ti,               \* text index of the current loop (0-based)
    slot_count,       \* slots drawn for the text being composed
    text_word_ids,    \* slots filled so far of the text being composed
    orphaned,         \* shuffled orphan list
    remaining,        \* orphans not placed yet
    replaceable,      \* pass 1: free slot indices of the current text
    rk,               \* position in replaceable (pass 1) / slot index (pass 2)
    word_ids,         \* local copy of the current text's slots during repair
    word_text_count,  \* pass 2: word id -> number of texts holding it
    raised,           \* exception that ended generate_language, or "none"
    last_draw,        \* kind of the latest draw from rng, or "none"
    state             \* GameState: element id -> count

vars == << cfg, pc, all_words, word_index, used_meanings, used_glyphs, ci,
           unique_meanings, i, glyph_count, attempt, roots, model, ti,
           slot_count, text_word_ids, orphaned, remaining, replaceable, rk,
           word_ids, word_text_count, raised, last_draw, state >>

---------------------------------------------------------------------------
(* Generic helpers                                                        *)

Range(s) == { s[k] : k \in DOMAIN s }

Min(a, b) == IF a < b THEN a ELSE b

\* Every order rng.shuffle can leave a list in: all its permutations.
Shuffles(s) ==
    LET n == Len(s)
        Bij == { p \in [1..n -> 1..n] : \A a, b \in 1..n : p[a] = p[b] => a = b }
    IN  { [k \in 1..n |-> s[p[k]]] : p \in Bij }

---------------------------------------------------------------------------
(* Tables                                                                 *)

\* Number of attempts of the glyph retry loop: range(100).
GLYPH_ATTEMPTS == 100

ROOT_DISCOVERY_THRESHOLD == 3

\* root_id of a word before root assignment (the empty string).
NoRoot == -1

WORD_COST_RANGES ==
    [ common   |-> << 80, 250 >>,
      everyday |-> << 500, 2000 >>,
      academic |-> << 4000, 15000 >>,
      rare     |-> << 20000, 60000 >> ]

TEXT_UNLOCK_THRESHOLDS == << 0, 5, 12, 20 >>

TEXT_NAMES == << "The Foundation Tablet", "The Builder's Record",
                 "The Scholar's Codex", "The Hidden Archive" >>

ROOT_NAMES == << "kel", "myr", "tho", "van", "zir",
                 "arn", "dru", "fen", "gol", "hes" >>

text_categories == << "common", "everyday", "academic", "rare" >>

\* Largest slot count of a text in the configuration with enough slots.
MaxSlots == 3

\* Alphabet of the configuration that exercises the glyph retry loop.
WordAlphabet == 2

\* Small instances of the tuning tables.  WORDS_PER_CATEGORY keeps the
\* dict's insertion order as a sequence.
CfgWords ==
    [ name |-> "words",
      WORDS_PER_CATEGORY |-> << [category |-> "common", count |-> 2],
                                [category |-> "everyday", count |-> 1] >>,
      MEANINGS |-> [ common   |-> << "water", "fire", "salt" >>,
                     everyday |-> << "salt", "gather" >> ],
      GLYPHS_PER_WORD |-> [ common |-> << 1, 1 >>, everyday |-> << 1, 2 >> ],
      ALPHABET_SIZE |-> WordAlphabet,
      WORDS_PER_ROOT |-> 2,
      ROOT_COUNT |-> 2,
      TEXT_COUNT |-> 1,
      TEXT_WORD_SLOTS_RANGE |-> << 1, 1 >> ]

CfgSparse ==
    [ name |-> "sparse",
      WORDS_PER_CATEGORY |-> << [category |-> "common", count |-> 1],
                                [category |-> "everyday", count |-> 1],
                                [category |-> "academic", count |-> 1] >>,
      MEANINGS |-> [ common   |-> << "water" >>,
                     everyday |-> << "gather" >>,
                     academic |-> << "theorem" >> ],
      GLYPHS_PER_WORD |-> [ common |-> << 1, 1 >>, everyday |-> << 2, 2 >>,
                            academic |-> << 3, 3 >> ],
      ALPHABET_SIZE |-> 1,
      WORDS_PER_ROOT |-> 1,
      ROOT_COUNT |-> 2,
      TEXT_COUNT |-> 2,
      TEXT_WORD_SLOTS_RANGE |-> << 1, 2 >> ]

\* Shaped like the shipped tables: the words divide evenly into roots
\* (30 = 5 * 6) and the texts have at least as many slots as there are
\* words (4 * 8 >= 30).
CfgShipped ==
    [ name |-> "shipped",
      WORDS_PER_CATEGORY |-> << [category |-> "common", count |-> 1],
                                [category |-> "everyday", count |-> 1],
                                [category |-> "academic", count |-> 1] >>,
      MEANINGS |-> [ common   |-> << "water" >>,
                     everyday |-> << "gather" >>,
                     academic |-> << "theorem" >> ],
      GLYPHS_PER_WORD |-> [ common |-> << 1, 1 >>, everyday |-> << 2, 2 >>,
                            academic |-> << 3, 3 >> ],
      ALPHABET_SIZE |-> 1,
      WORDS_PER_ROOT |-> 3,
      ROOT_COUNT |-> 1,
      TEXT_COUNT |-> 2,
      TEXT_WORD_SLOTS_RANGE |-> << 2, MaxSlots >> ]

\* A meaning pool smaller than the configured count.
CfgShortPool ==
    [ name |-> "shortpool",
      WORDS_PER_CATEGORY |-> << [category |-> "common", count |-> 2] >>,
      MEANINGS |-> [ common |-> << "water" >> ],
      GLYPHS_PER_WORD |-> [ common |-> << 1, 1 >> ],
      ALPHABET_SIZE |-> WordAlphabet,
      WORDS_PER_ROOT |-> 1,
      ROOT_COUNT |-> 1,
      TEXT_COUNT |-> 1,
      TEXT_WORD_SLOTS_RANGE |-> << 1, 1 >> ]

\* More texts than TEXT_UNLOCK_THRESHOLDS and _TEXT_NAMES have entries, and
\* texts of categories that have no word.
CfgManyTexts ==
    [ name |-> "manytexts",
      WORDS_PER_CATEGORY |-> << [category |-> "common", count |-> 1],
                                [category |-> "everyday", count |-> 1] >>,
      MEANINGS |-> [ common   |-> << "water" >>,
                     everyday |-> << "gather" >> ],
      GLYPHS_PER_WORD |-> [ common |-> << 1, 1 >>, everyday |-> << 2, 2 >> ],
      ALPHABET_SIZE |-> 1,
      WORDS_PER_ROOT |-> 1,
      ROOT_COUNT |-> 2,
      TEXT_COUNT |-> 6,
      TEXT_WORD_SLOTS_RANGE |-> << 1, 1 >> ]

\* The tables of the languages the game is played on: enough words to reach
\* ROOT_DISCOVERY_THRESHOLD inside a root and the second text's threshold.
\* Generation under these tables is not enumerated; GameInit draws returned
\* models of it.
CfgGame ==
    [ name |-> "game",
      WORDS_PER_CATEGORY |-> << [category |-> "common", count |-> 2],
                                [category |-> "everyday", count |-> 1],
                                [category |-> "academic", count |-> 1],
                                [category |-> "rare", count |-> 1] >>,
      MEANINGS |-> [ common   |-> << "water", "fire" >>,
                     everyday |-> << "gather" >>,
                     academic |-> << "theorem" >>,
                     rare     |-> << "oracle" >> ],
      GLYPHS_PER_WORD |-> [ common |-> << 1, 2 >>, everyday |-> << 3, 3 >>,
                            academic |-> << 4, 4 >>, rare |-> << 5, 5 >> ],
      ALPHABET_SIZE |-> 1,
      WORDS_PER_ROOT |-> 3,
      ROOT_COUNT |-> 1,
      TEXT_COUNT |-> 2,
      TEXT_WORD_SLOTS_RANGE |-> << 3, 3 >> ]

\* Words of one category only: the first text has no complementary pool,
\* the second no category pool.
CfgOneKind ==
    [ name |-> "onekind",
      WORDS_PER_CATEGORY |-> << [category |-> "common", count |-> 1] >>,
      MEANINGS |-> [ common |-> << "water" >> ],
      GLYPHS_PER_WORD |-> [ common |-> << 1, 1 >> ],
      ALPHABET_SIZE |-> 1,
      WORDS_PER_ROOT |-> 1,
      ROOT_COUNT |-> 1,
      TEXT_COUNT |-> 2,
      TEXT_WORD_SLOTS_RANGE |-> << 1, 2 >> ]

\* No word at all: both pools of a text are empty.
CfgNoWords ==
    [ name |-> "nowords",
      WORDS_PER_CATEGORY |-> << [category |-> "common", count |-> 0] >>,
      MEANINGS |-> [ common |-> << "water" >> ],
      GLYPHS_PER_WORD |-> [ common |-> << 1, 1 >> ],
      ALPHABET_SIZE |-> 1,
      WORDS_PER_ROOT |-> 1,
      ROOT_COUNT |-> 1,
      TEXT_COUNT |-> 1,
      TEXT_WORD_SLOTS_RANGE |-> << 1, 1 >> ]

Configs ==
    { CfgWords, CfgSparse, CfgShipped, CfgShortPool, CfgManyTexts, CfgOneKind,
      CfgNoWords }

RECURSIVE SumCounts(_)
SumCounts(wpc) ==
    IF wpc = << >> THEN 0 ELSE Head(wpc).count + SumCounts(Tail(wpc))

TotalWords(c) == SumCounts(c.WORDS_PER_CATEGORY)

---------------------------------------------------------------------------
(* Word generation                                                        *)

\* The loop that picks the first `count` meanings not in used_meanings.
RECURSIVE PickUnique(_, _, _, _)
PickUnique(meanings, used, count, acc) ==
    IF meanings = << >> THEN acc
    ELSE LET m    == Head(meanings)
             acc2 == IF m \notin used THEN Append(acc, m) ELSE acc
         IN  IF Len(acc2) = count THEN acc2
             ELSE PickUnique(Tail(meanings), used, count, acc2)

\* Variant: the first `count` meanings, without the used_meanings filter.
PickAny(meanings, used, count) ==
    IF Len(meanings) <= count THEN meanings ELSE SubSeq(meanings, 1, count)

UniqueMeanings(meanings, used, count) == PickUnique(meanings, used, count, << >>)

\* Variant: t = i / count.
BaseCostByCount(idx, count, cost_lo, cost_hi) ==
    cost_lo + (idx * (cost_hi - cost_lo)) \div count

\* int(cost_lo + t * (cost_hi - cost_lo)) with t = i / (count - 1), or 0.5.
BaseCost(idx, count, cost_lo, cost_hi) ==
    IF count > 1
    THEN cost_lo + (idx * (cost_hi - cost_lo)) \div (count - 1)
    ELSE cost_lo + (cost_hi - cost_lo) \div 2

Word(id, root_id, glyph_indices, meaning, category, base_cost) ==
    [ id |-> id, root_id |-> root_id, glyph_indices |-> glyph_indices,
      meaning |-> meaning, category |-> category, base_cost |-> base_cost ]

Category == cfg.WORDS_PER_CATEGORY[ci].category
Count    == cfg.WORDS_PER_CATEGORY[ci].count

\* Variant: the upper end of the index range is included, as with randint.
GlyphDrawsInclusive(n) == [ 1..n -> 0..cfg.ALPHABET_SIZE ]

\* tuple(rng.randint(0, ALPHABET_SIZE - 1) for _ in range(glyph_count)): every
\* sequence the draws can produce.
GlyphDraws(n) == [ 1..n -> 0..(cfg.ALPHABET_SIZE - 1) ]

\* Leaving a category's word loop: next category, or on to the root shuffle.
\* Returns the values of <<pc, ci>> after a word loop has ended.
AfterCategory(c) ==
    IF c < Len(cfg.WORDS_PER_CATEGORY) THEN << "category", c + 1 >>
    ELSE << "shuffle", c >>

\* GameState of a fresh runtime: every element has count 0.  The counts are
\* kept per kind of element because word_03 and text_03 are both 3 here.
NewGameState ==
    [ word |-> << >>, text |-> << >>, upgrade |-> << >>, discount |-> << >>,
      milestones |-> {} ]

EmptyModel ==
    [ words |-> << >>, roots |-> << >>, texts |-> << >>,
      word_list |-> << >>, root_list |-> << >>, text_list |-> << >> ]

Init ==
    /\ cfg \in Configs
    /\ pc = IF Len(cfg.WORDS_PER_CATEGORY) = 0 THEN "shuffle" ELSE "category"
    /\ all_words = << >>
    /\ word_index = 0
    /\ used_meanings = {}
    /\ used_glyphs = {}
    /\ ci = 1
    /\ unique_meanings = << >>
    /\ i = 0
    /\ glyph_count = 0
    /\ attempt = 0
    /\ roots = << >>
    /\ model = EmptyModel
    /\ ti = 0
    /\ slot_count = 0
    /\ text_word_ids = << >>
    /\ orphaned = << >>
    /\ remaining = << >>
    /\ replaceable = << >>
    /\ rk = 0
    /\ word_ids = << >>
    /\ word_text_count = << >>
    /\ raised = "none"
    /\ last_draw = "none"
    /\ state = NewGameState

\* for category, count in ...: shuffle the pool and pick the meanings.
ShuffleMeanings ==
    /\ pc = "category"
    /\ \E meanings \in Shuffles(cfg.MEANINGS[Category]) :
          unique_meanings' = UniqueMeanings(meanings, used_meanings, Count)
    /\ i' = 0
    /\ last_draw' = "meanings"
    /\ IF Count = 0
       THEN /\ pc' = AfterCategory(ci)[1]
            /\ ci' = AfterCategory(ci)[2]
       ELSE /\ pc' = "word"
            /\ ci' = ci
    /\ UNCHANGED << raised, state >>
    /\ UNCHANGED << cfg, all_words, word_index, used_meanings, used_glyphs,
                    glyph_count, attempt, roots, model, ti, slot_count,
                    text_word_ids, orphaned, remaining, replaceable, rk,
                    word_ids, word_text_count >>

\* Top of the word loop: take the i-th meaning (IndexError when the pool ran
\* short) and draw the glyph count.
DrawGlyphCount ==
    /\ pc = "word"
    /\ IF i >= Len(unique_meanings)
       THEN /\ pc' = "error"
            /\ raised' = "IndexError"
            /\ UNCHANGED << used_meanings, glyph_count, attempt, last_draw >>
       ELSE /\ used_meanings' = used_meanings \cup { unique_meanings[i + 1] }
            /\ \E n \in cfg.GLYPHS_PER_WORD[Category][1] ..
                        cfg.GLYPHS_PER_WORD[Category][2] : glyph_count' = n
            /\ attempt' = 0
            /\ pc' = "glyph"
            /\ last_draw' = "glyphs"
            /\ UNCHANGED raised
    /\ UNCHANGED << state >>
    /\ UNCHANGED << cfg, all_words, word_index, used_glyphs, ci,
                    unique_meanings, i, roots, model, ti, slot_count,
                    text_word_ids, orphaned, remaining, replaceable, rk,
                    word_ids, word_text_count >>

\* Variant: the retry loop has no last attempt (while True).
NeverLast(a) == FALSE

\* for _attempt in range(100): the pass with _attempt = 99 is the last one.
LastAttempt(a) == a + 1 >= GLYPH_ATTEMPTS

\* One pass of the retry loop.  The sequence is kept when it is new or when
\* this was the last attempt; the word is then created.
GlyphAttempt ==
    /\ pc = "glyph"
    /\ last_draw' = "glyphs"
    /\ \E glyph_indices \in GlyphDraws(glyph_count) :
          IF glyph_indices \in used_glyphs /\ ~LastAttempt(attempt)
          THEN /\ attempt' = attempt + 1
               /\ UNCHANGED << pc, ci, i, all_words, word_index, used_glyphs >>
          ELSE /\ used_glyphs' = used_glyphs \cup { glyph_indices }
               /\ all_words' = Append(all_words,
                     Word(word_index, NoRoot, glyph_indices,
                          unique_meanings[i + 1], Category,
                          BaseCost(i, Count, WORD_COST_RANGES[Category][1],
                                   WORD_COST_RANGES[Category][2])))
               /\ word_index' = word_index + 1
               /\ i' = i + 1
               /\ attempt' = 0
               /\ IF i + 1 = Count
                  THEN /\ pc' = AfterCategory(ci)[1]
                       /\ ci' = AfterCategory(ci)[2]
                  ELSE /\ pc' = "word"
                       /\ ci' = ci
    /\ UNCHANGED << raised, state >>
    /\ UNCHANGED << cfg, used_meanings, unique_meanings, glyph_count, roots,
                    model, ti, slot_count, text_word_ids, orphaned, remaining,
                    replaceable, rk, word_ids, word_text_count >>

---------------------------------------------------------------------------
(* Roots, cost order and the model's word and root collections            *)

Root(id, display_name, ids) ==
    [ id |-> id, display_name |-> display_name, word_ids |-> ids,
      discovery_threshold |-> ROOT_DISCOVERY_THRESHOLD ]

RootCount(words) == Min(cfg.ROOT_COUNT, Len(words) \div cfg.WORDS_PER_ROOT)

\* Variant: chunk boundaries one position early.
ChunkShifted(k) == k \div cfg.WORDS_PER_ROOT

\* The chunk of the shuffled list a position belongs to (0-based root index).
ChunkOf(k) == (k - 1) \div cfg.WORDS_PER_ROOT

\* Variant: the words past the last full chunk are dropped.
StampRootsDropRest(words) ==
    [ k \in 1..(RootCount(words) * cfg.WORDS_PER_ROOT) |->
        [ words[k] EXCEPT !.root_id = ChunkOf(k) ] ]

\* all_words[wi] = Word(..., root_id=root_id, ...) for the words of the chunks.
StampRoots(words) ==
    [ k \in 1..Len(words) |->
        IF k <= RootCount(words) * cfg.WORDS_PER_ROOT
        THEN [ words[k] EXCEPT !.root_id = ChunkOf(k) ]
        ELSE words[k] ]

\* roots.append(Root(id=root_id, display_name=..., word_ids=...)) per chunk.
BuildRoots(words) ==
    [ r \in 1..RootCount(words) |->
        Root(r - 1, ROOT_NAMES[r],
             [ j \in 1..cfg.WORDS_PER_ROOT |->
                 words[(r - 1) * cfg.WORDS_PER_ROOT + j].id ]) ]

\* Variant: every word goes to the front.
InsertFirst(sorted, w) == << w >> \o sorted

\* list.sort(key=base_cost): stable, so a word goes after every word that
\* costs no more than it.
RECURSIVE InsertByCost(_, _)
InsertByCost(sorted, w) ==
    IF sorted = << >> THEN << w >>
    ELSE IF Head(sorted).base_cost <= w.base_cost
         THEN << Head(sorted) >> \o InsertByCost(Tail(sorted), w)
         ELSE << w >> \o sorted

RECURSIVE SortFrom(_, _)
SortFrom(words, acc) ==
    IF words = << >> THEN acc
    ELSE SortFrom(Tail(words), InsertByCost(acc, Head(words)))

\* Variant: the list is left in shuffled order.
Unsorted(words) == words

SortByCost(words) == SortFrom(words, << >>)

\* model.words[w.id] = w; a later entry with the same key replaces the earlier.
DictOf(list) ==
    [ id \in { list[k].id : k \in DOMAIN list } |->
        list[CHOOSE k \in DOMAIN list :
                 /\ list[k].id = id
                 /\ \A j \in DOMAIN list : list[j].id = id => j <= k] ]

\* rng.shuffle(all_words), root assignment, the sort and the population of
\* model.words / model.roots.
ShuffleWords ==
    /\ pc = "shuffle"
    /\ last_draw' = "roots"
    /\ \E shuffled \in Shuffles(all_words) :
          IF RootCount(shuffled) > Len(ROOT_NAMES)
          THEN /\ pc' = "error"
               /\ raised' = "IndexError"
               /\ UNCHANGED << all_words, roots, model, ti >>
          ELSE LET stamped == StampRoots(shuffled)
                   sorted  == SortByCost(stamped)
                   rs      == BuildRoots(shuffled)
               IN  /\ all_words' = sorted
                   /\ roots' = rs
                   /\ model' = [ model EXCEPT
                                   !.words = DictOf(sorted),
                                   !.word_list = sorted,
                                   !.roots = DictOf(rs),
                                   !.root_list = rs ]
                   /\ ti' = 0
                   /\ pc' = IF cfg.TEXT_COUNT = 0 THEN "orphans" ELSE "text"
                   /\ UNCHANGED raised
    /\ UNCHANGED << state >>
    /\ UNCHANGED << cfg, word_index, used_meanings, used_glyphs, ci,
                    unique_meanings, i, glyph_count, attempt, slot_count,
                    text_word_ids, orphaned, remaining, replaceable, rk,
                    word_ids, word_text_count >>

---------------------------------------------------------------------------
(* Text composition                                                       *)

Text(id, display_name, ids, category, unlock_threshold) ==
    [ id |-> id, display_name |-> display_name, word_ids |-> ids,
      category |-> category, unlock_threshold |-> unlock_threshold ]

TextCategory(t) == text_categories[(t % Len(text_categories)) + 1]

IsCategory(w, cat) == w.category = cat

category_words(t) == SelectSeq(all_words, LAMBDA w : IsCategory(w, TextCategory(t)))

other_words(t) == SelectSeq(all_words, LAMBDA w : ~IsCategory(w, TextCategory(t)))

\* Variant: past the end of the list the index restarts at the list's length.
UnlockRestart(t) ==
    IF t < Len(TEXT_UNLOCK_THRESHOLDS) THEN TEXT_UNLOCK_THRESHOLDS[t + 1]
    ELSE (t - Len(TEXT_UNLOCK_THRESHOLDS)) * 8

Unlock(t) ==
    IF t < Len(TEXT_UNLOCK_THRESHOLDS) THEN TEXT_UNLOCK_THRESHOLDS[t + 1]
    ELSE t * 8

TextName(t) ==
    IF t < Min(cfg.TEXT_COUNT, Len(TEXT_NAMES)) THEN TEXT_NAMES[t + 1]
    ELSE << "Text", t + 1 >>

\* Variant: no fallback when a pool is empty.
SlotPoolNoFallback(t, under_bias) ==
    IF under_bias THEN category_words(t) ELSE other_words(t)

\* The pool a slot is drawn from, given the outcome of rng.random() < bias.
\* The bias (0.6 for the first text, 0.4 after) lies strictly between 0 and
\* 1, so both outcomes can happen for every text.
SlotPool(t, under_bias) ==
    IF category_words(t) # << >> /\ (under_bias \/ other_words(t) = << >>)
    THEN category_words(t)
    ELSE IF other_words(t) # << >> THEN other_words(t) ELSE all_words

\* d[key] = value
DictPut(d, key, value) ==
    [ k \in DOMAIN d \cup { key } |-> IF k = key THEN value ELSE d[k] ]

\* model.texts[text_id] = text; model.text_list.append(text)
StoreText(m, text) ==
    [ m EXCEPT !.texts = DictPut(@, text.id, text),
               !.text_list = Append(@, text) ]

\* Variant: the words are shuffled into roots again once the texts exist.
AfterTextRepartition(t) == IF t + 1 < cfg.TEXT_COUNT THEN "text" ELSE "shuffle"

\* Variant: the text loop runs once more than TEXT_COUNT.
AfterTextOneMore(t) == IF t < cfg.TEXT_COUNT THEN "text" ELSE "orphans"

AfterText(t) == IF t + 1 < cfg.TEXT_COUNT THEN "text" ELSE "orphans"

\* slot_count = rng.randint(*TEXT_WORD_SLOTS_RANGE); a text of no slots is
\* stored at once.
DrawSlotCount ==
    /\ pc = "text"
    /\ last_draw' = "slots"
    /\ \E n \in cfg.TEXT_WORD_SLOTS_RANGE[1] .. cfg.TEXT_WORD_SLOTS_RANGE[2] :
          /\ slot_count' = n
          /\ IF n = 0
             THEN /\ model' = StoreText(model,
                        Text(ti, TextName(ti), << >>, TextCategory(ti), Unlock(ti)))
                  /\ ti' = ti + 1
                  /\ pc' = AfterText(ti)
             ELSE /\ pc' = "slot"
                  /\ UNCHANGED << model, ti >>
    /\ text_word_ids' = << >>
    /\ UNCHANGED << raised, state >>
    /\ UNCHANGED << cfg, all_words, word_index, used_meanings, used_glyphs,
                    ci, unique_meanings, i, glyph_count, attempt, roots,
                    orphaned, remaining, replaceable, rk, word_ids,
                    word_text_count >>

\* One iteration of the slot loop; after the last slot the Text is created
\* and stored.  rng.choice of an empty list raises IndexError.
DrawSlot ==
    /\ pc = "slot"
    /\ \E under_bias \in BOOLEAN :
          LET pool == SlotPool(ti, under_bias)
          IN  IF pool = << >>
              THEN /\ pc' = "error"
                   /\ raised' = "IndexError"
                   /\ UNCHANGED << text_word_ids, model, ti, last_draw >>
              ELSE \E k \in 1..Len(pool) :
                     LET ids == Append(text_word_ids, pool[k].id)
                     IN  /\ text_word_ids' = ids
                         /\ last_draw' = "slots"
                         /\ UNCHANGED raised
                         /\ IF Len(ids) < slot_count
                            THEN UNCHANGED << pc, model, ti >>
                            ELSE /\ model' = StoreText(model,
                                       Text(ti, TextName(ti), ids,
                                            TextCategory(ti), Unlock(ti)))
                                 /\ ti' = ti + 1
                                 /\ pc' = AfterText(ti)
    /\ UNCHANGED << state >>
    /\ UNCHANGED << cfg, all_words, word_index, used_meanings, used_glyphs,
                    ci, unique_meanings, i, glyph_count, attempt, roots,
                    slot_count, orphaned, remaining, replaceable, rk, word_ids,
                    word_text_count >>

---------------------------------------------------------------------------
(* Coverage repair                                                        *)

\* Slot positions are 1-based here (Python's slot index plus one).

Ids(list) == [ k \in DOMAIN list |-> list[k].id ]

\* all_word_ids_in_texts
Covered(texts) == UNION { Range(texts[t].word_ids) : t \in DOMAIN texts }

\* orphaned = [w.id for w in all_words if w.id not in all_word_ids_in_texts]
Orphans(words, texts) ==
    SelectSeq(Ids(words), LAMBDA id : id \notin Covered(texts))

\* Keys of word_counts in insertion order: the ids in order of first occurrence.
RECURSIVE FirstSeen(_, _)
FirstSeen(ids, acc) ==
    IF ids = << >> THEN acc
    ELSE FirstSeen(Tail(ids),
                   IF Head(ids) \in Range(acc) THEN acc ELSE Append(acc, Head(ids)))

\* word_counts[wid]: the positions of wid, ascending.
Positions(ids, wid) ==
    SelectSeq([ k \in DOMAIN ids |-> k ], LAMBDA k : ids[k] = wid)

RECURSIVE Extend(_, _, _, _)
Extend(ids, keys, skip, acc) ==
    IF keys = << >> THEN acc
    ELSE LET indices == Positions(ids, Head(keys))
         IN  Extend(ids, Tail(keys), skip,
                    IF Len(indices) > skip
                    THEN acc \o SubSeq(indices, skip + 1, Len(indices))
                    ELSE acc)

\* Variant: every slot is free, the first occurrence of an id included.
ReplaceableAll(ids) == Extend(ids, FirstSeen(ids, << >>), 0, << >>)

\* Variant: an id must occur three times before a slot of it is free.
ReplaceableFromThird(ids) == Extend(ids, FirstSeen(ids, << >>), 2, << >>)

\* replaceable.extend(indices[1:]) for every id that occurs more than once.
Replaceable(ids) == Extend(ids, FirstSeen(ids, << >>), 1, << >>)

\* dict.get(key, default)
DictGet(d, key, default) == IF key \in DOMAIN d THEN d[key] ELSE default

\* word_text_count: for each id, the number of texts whose slots hold it.
CountTexts(texts) ==
    [ id \in Covered(texts) |->
        Cardinality({ t \in DOMAIN texts : id \in Range(texts[t].word_ids) }) ]

\* Variant: a single reference already makes a donor.
AnyReferenced(n) == n >= 1

\* word_text_count.get(wid, 0) > 1
IsDonor(n) == n > 1

\* Variant: the new Text is appended to text_list instead of replacing the
\* old one in place.
UpdateTextAppended(m, idx, old_text, new_word_ids) ==
    IF new_word_ids = old_text.word_ids THEN m
    ELSE LET new_text == [ old_text EXCEPT !.word_ids = new_word_ids ]
         IN  [ m EXCEPT !.texts = DictPut(@, old_text.id, new_text),
                        !.text_list = Append(@, new_text) ]

\* Variant: only model.text_list is updated, model.texts keeps the old Text.
UpdateTextListOnly(m, idx, old_text, new_word_ids) ==
    IF new_word_ids = old_text.word_ids THEN m
    ELSE [ m EXCEPT !.text_list[idx + 1] =
                       [ old_text EXCEPT !.word_ids = new_word_ids ] ]

\* Variant: only model.texts is updated, model.text_list keeps the old Text.
UpdateTextDictOnly(m, idx, old_text, new_word_ids) ==
    IF new_word_ids = old_text.word_ids THEN m
    ELSE [ m EXCEPT !.texts = DictPut(@, old_text.id,
                                 [ old_text EXCEPT !.word_ids = new_word_ids ]) ]

\* _update_text(model, idx, old_text, new_word_ids); idx is 0-based.
UpdateText(m, idx, old_text, new_word_ids) ==
    IF new_word_ids = old_text.word_ids THEN m
    ELSE LET new_text == Text(old_text.id, old_text.display_name, new_word_ids,
                              old_text.category, old_text.unlock_threshold)
         IN  [ m EXCEPT !.texts = DictPut(@, old_text.id, new_text),
                        !.text_list[idx + 1] = new_text ]

\* Variant: the donor's count is not decremented.
MovedNoDecrement(counts, wid, orphan_wid) ==
    DictPut(counts, orphan_wid, DictGet(counts, orphan_wid, 0) + 1)

\* word_text_count[wid] -= 1; word_text_count[orphan_wid] = ... + 1
Moved(counts, wid, orphan_wid) ==
    LET less == [ counts EXCEPT ![wid] = @ - 1 ]
    IN  DictPut(less, orphan_wid, DictGet(less, orphan_wid, 0) + 1)

\* Variant: the orphan list is shuffled and handed to the passes even when
\* it is empty.
AlwaysRepair(found) == TRUE

\* `if not orphaned: return model` is not taken.
NeedsRepair(found) == found # << >>

\* remaining.pop() returns and removes the last element.
Last(list) == list[Len(list)]

Front(list) == SubSeq(list, 1, Len(list) - 1)

\* The orphan list; without orphans the function returns, otherwise the
\* list is shuffled and pass 1 starts.
FindOrphans ==
    /\ pc = "orphans"
    /\ LET found == Orphans(all_words, model.text_list)
       IN  IF ~NeedsRepair(found)
           THEN /\ pc' = "done"
                /\ UNCHANGED << orphaned, remaining, ti, last_draw >>
           ELSE /\ last_draw' = "orphans"
                /\ \E shuffled \in Shuffles(found) :
                      /\ orphaned' = shuffled
                      /\ remaining' = shuffled
                /\ ti' = 0
                /\ pc' = "pass1"
    /\ UNCHANGED << raised, state >>
    /\ UNCHANGED << cfg, all_words, word_index, used_meanings, used_glyphs,
                    ci, unique_meanings, i, glyph_count, attempt, roots,
                    model, slot_count, text_word_ids, replaceable, rk,
                    word_ids, word_text_count >>

\* Head of the pass 1 loop over the texts; when the loop ends pass 2 starts
\* if orphans remain, and the function returns if none do.
Pass1Text ==
    /\ pc = "pass1"
    /\ IF ti < Len(model.text_list) /\ remaining # << >>
       THEN /\ replaceable' = Replaceable(model.text_list[ti + 1].word_ids)
            /\ word_ids' = model.text_list[ti + 1].word_ids
            /\ rk' = 0
            /\ pc' = "pass1slot"
            /\ UNCHANGED << ti, word_text_count >>
       ELSE IF remaining # << >>
            THEN /\ word_text_count' = CountTexts(model.text_list)
                 /\ ti' = 0
                 /\ pc' = "pass2"
                 /\ UNCHANGED << replaceable, word_ids, rk >>
            ELSE /\ pc' = "done"
                 /\ UNCHANGED << replaceable, word_ids, rk, ti, word_text_count >>
    /\ UNCHANGED << raised, last_draw, state >>
    /\ UNCHANGED << cfg, all_words, word_index, used_meanings, used_glyphs,
                    ci, unique_meanings, i, glyph_count, attempt, roots,
                    model, slot_count, text_word_ids, orphaned, remaining >>

\* One substitution of pass 1, or the end of the slot loop with _update_text.
Pass1Slot ==
    /\ pc = "pass1slot"
    /\ IF rk < Len(replaceable) /\ remaining # << >>
       THEN /\ word_ids' = [ word_ids EXCEPT ![replaceable[rk + 1]] = Last(remaining) ]
            /\ remaining' = Front(remaining)
            /\ rk' = rk + 1
            /\ UNCHANGED << model, ti, pc >>
       ELSE /\ model' = UpdateText(model, ti, model.text_list[ti + 1], word_ids)
            /\ ti' = ti + 1
            /\ pc' = "pass1"
            /\ UNCHANGED << word_ids, remaining, rk >>
    /\ UNCHANGED << raised, last_draw, state >>
    /\ UNCHANGED << cfg, all_words, word_index, used_meanings, used_glyphs,
                    ci, unique_meanings, i, glyph_count, attempt, roots,
                    slot_count, text_word_ids, orphaned, replaceable,
                    word_text_count >>

\* Head of the pass 2 loop over the texts.
Pass2Text ==
    /\ pc = "pass2"
    /\ IF ti < Len(model.text_list) /\ remaining # << >>
       THEN /\ word_ids' = model.text_list[ti + 1].word_ids
            /\ rk' = 0
            /\ pc' = "pass2slot"
       ELSE /\ pc' = "done"
            /\ UNCHANGED << word_ids, rk >>
    /\ UNCHANGED << raised, last_draw, state >>
    /\ UNCHANGED << cfg, all_words, word_index, used_meanings, used_glyphs,
                    ci, unique_meanings, i, glyph_count, attempt, roots,
                    model, ti, slot_count, text_word_ids, orphaned, remaining,
                    replaceable, word_text_count >>

\* One slot of pass 2: a donor's slot takes an orphan; at the end of the
\* slot loop _update_text stores the text.
Pass2Slot ==
    /\ pc = "pass2slot"
    /\ IF rk < Len(word_ids) /\ remaining # << >>
       THEN LET wid == word_ids[rk + 1]
                orphan_wid == Last(remaining)
            IN  /\ IF IsDonor(DictGet(word_text_count, wid, 0))
                   THEN /\ remaining' = Front(remaining)
                        /\ word_text_count' = Moved(word_text_count, wid, orphan_wid)
                        /\ word_ids' = [ word_ids EXCEPT ![rk + 1] = orphan_wid ]
                   ELSE UNCHANGED << remaining, word_text_count, word_ids >>
                /\ rk' = rk + 1
                /\ UNCHANGED << model, ti, pc >>
       ELSE /\ model' = UpdateText(model, ti, model.text_list[ti + 1], word_ids)
            /\ ti' = ti + 1
            /\ pc' = "pass2"
            /\ UNCHANGED << word_ids, remaining, rk, word_text_count >>
    /\ UNCHANGED << raised, last_draw, state >>
    /\ UNCHANGED << cfg, all_words, word_index, used_meanings, used_glyphs,
                    ci, unique_meanings, i, glyph_count, attempt, roots,
                    slot_count, text_word_ids, orphaned, replaceable >>

Next ==
    \/ ShuffleMeanings
    \/ DrawGlyphCount
    \/ GlyphAttempt
    \/ ShuffleWords
    \/ DrawSlotCount
    \/ DrawSlot
    \/ FindOrphans
    \/ Pass1Text
    \/ Pass1Slot
    \/ Pass2Text
    \/ Pass2Slot

Spec == Init /\ [][Next]_vars

\* The interpreter runs the call to its end: a step that can be taken is
\* eventually taken.
FairSpec == Init /\ [][Next]_vars /\ WF_vars(Next)

---------------------------------------------------------------------------
(* Costs and cost order over the shipped tables                           *)

\* The 30 words of the shipped tables are beyond the enumeration of their
\* draws.  base_cost and the order of word_list do not depend on the draws
\* of meanings and glyphs, so the word loop is run here without them (the
\* words carry no meaning and no glyphs), and the shuffle takes some of its
\* outcomes.

\* Largest count of the one-category tables.
MaxCount == 5

\* constants.py as shipped (the meaning pools are not needed here).
CfgDefault ==
    [ name |-> "default",
      WORDS_PER_CATEGORY |-> << [category |-> "common", count |-> 10],
                                [category |-> "everyday", count |-> 10],
                                [category |-> "academic", count |-> 6],
                                [category |-> "rare", count |-> 4] >>,
      GLYPHS_PER_WORD |-> [ common |-> << 2, 3 >>, everyday |-> << 3, 4 >>,
                            academic |-> << 4, 5 >>, rare |-> << 5, 6 >> ],
      ALPHABET_SIZE |-> 26,
      WORDS_PER_ROOT |-> 6,
      ROOT_COUNT |-> 5,
      TEXT_COUNT |-> 4,
      TEXT_WORD_SLOTS_RANGE |-> << 8, 12 >> ]

\* The shipped tables with WORDS_PER_CATEGORY cut down to one category.
CfgOneCategory(cat, n) ==
    [ CfgDefault EXCEPT !.name = "onecategory",
                        !.WORDS_PER_CATEGORY = << [category |-> cat, count |-> n] >> ]

CostConfigs ==
    { CfgDefault } \cup
    { CfgOneCategory(cat, n) : cat \in Range(text_categories), n \in 1..MaxCount }

\* Some outcomes of rng.shuffle: the rotations of the list and its reversal.
SomeShuffles(s) ==
    { [ k \in 1..Len(s) |-> s[((k + r - 1) % Len(s)) + 1] ] : r \in 0..(Len(s) - 1) }
      \cup { [ k \in 1..Len(s) |-> s[Len(s) + 1 - k] ] }

CostInit ==
    /\ cfg \in CostConfigs
    /\ pc = "cost"
    /\ all_words = << >>
    /\ word_index = 0
    /\ used_meanings = {}
    /\ used_glyphs = {}
    /\ ci = 1
    /\ unique_meanings = << >>
    /\ i = 0
    /\ glyph_count = 0
    /\ attempt = 0
    /\ roots = << >>
    /\ model = EmptyModel
    /\ ti = 0
    /\ slot_count = 0
    /\ text_word_ids = << >>
    /\ orphaned = << >>
    /\ remaining = << >>
    /\ replaceable = << >>
    /\ rk = 0
    /\ word_ids = << >>
    /\ word_text_count = << >>
    /\ raised = "none"
    /\ last_draw = "none"
    /\ state = NewGameState

\* One pass of the word loop, cost and Word creation only.
WordCost ==
    /\ pc = "cost"
    /\ all_words' = Append(all_words,
          Word(word_index, NoRoot, << >>, "", Category,
               BaseCost(i, Count, WORD_COST_RANGES[Category][1],
                        WORD_COST_RANGES[Category][2])))
    /\ word_index' = word_index + 1
    /\ IF i + 1 = Count
       THEN /\ i' = 0
            /\ ci' = AfterCategory(ci)[2]
            /\ pc' = IF AfterCategory(ci)[1] = "shuffle" THEN "costed" ELSE "cost"
       ELSE /\ i' = i + 1
            /\ UNCHANGED << ci, pc >>
    /\ UNCHANGED << cfg, used_meanings, used_glyphs, unique_meanings,
                    glyph_count, attempt, roots, model, ti, slot_count,
                    text_word_ids, orphaned, remaining, replaceable, rk,
                    word_ids, word_text_count, raised, last_draw, state >>

\* rng.shuffle(all_words), root assignment, the sort and the population of
\* model.words / model.roots, as in ShuffleWords.
SortWords ==
    /\ pc = "costed"
    /\ \E shuffled \in SomeShuffles(all_words) :
          LET sorted == SortByCost(StampRoots(shuffled))
              rs     == BuildRoots(shuffled)
          IN  /\ all_words' = sorted
              /\ roots' = rs
              /\ model' = [ model EXCEPT !.words = DictOf(sorted),
                                          !.word_list = sorted,
                                          !.roots = DictOf(rs),
                                          !.root_list = rs ]
    /\ last_draw' = "roots"
    /\ pc' = "sorted"
    /\ UNCHANGED << cfg, word_index, used_meanings, used_glyphs, ci,
                    unique_meanings, i, glyph_count, attempt, ti, slot_count,
                    text_word_ids, orphaned, remaining, replaceable, rk,
                    word_ids, word_text_count, raised, state >>

CostNext ==
    \/ WordCost
    \/ SortWords

CostSpec == CostInit /\ [][CostNext]_vars

---------------------------------------------------------------------------
(* Queries of LanguageModel                                               *)

\* LanguageModel.words_for_root
words_for_root(root_id) ==
    [ k \in DOMAIN model.roots[root_id].word_ids |->
        model.words[model.roots[root_id].word_ids[k]] ]

\* The loop of unique_words_in_text over text.word_ids.
RECURSIVE UniqueLoop(_, _, _)
UniqueLoop(ids, seen, result) ==
    IF ids = << >> THEN result
    ELSE IF Head(ids) \notin seen
         THEN UniqueLoop(Tail(ids), seen \cup { Head(ids) },
                         Append(result, model.words[Head(ids)]))
         ELSE UniqueLoop(Tail(ids), seen, result)

\* Variant: one Word per slot, without the seen set.
words_in_text(text_id) ==
    [ k \in DOMAIN model.texts[text_id].word_ids |->
        model.words[model.texts[text_id].word_ids[k]] ]

\* LanguageModel.unique_words_in_text
unique_words_in_text(text_id) ==
    UniqueLoop(model.texts[text_id].word_ids, {}, << >>)

---------------------------------------------------------------------------
(* The game built on a generated language (build_definition)              *)

\* Insight/s per translated word of a text, in tenths: 1.5.
INSIGHT_PER_TRANSLATED_WORD == 15

\* Factor applied when upg_text_efficiency is owned, in tenths: 1.0.
TEXT_EFFICIENCY_MULT == 10

\* The variables of generate_language; the game leaves them alone.
generation ==
    << cfg, pc, all_words, word_index, used_meanings, used_glyphs, ci,
       unique_meanings, i, glyph_count, attempt, roots, model, ti,
       slot_count, text_word_ids, orphaned, remaining, replaceable, rk,
       word_ids, word_text_count, raised, last_draw >>

\* state.element_count(id)
element_count(st, kind, id) == DictGet(st[kind], id, 0)

\* _total_words_translated(state, language)
total_words_translated(st) ==
    Cardinality({ k \in DOMAIN model.word_list :
                    element_count(st, "word", model.word_list[k].id) >= 1 })

\* sum(1 for wid in t_word_ids if state.element_count(wid) >= 1): one per slot.
TranslatedSlots(t_word_ids, st) ==
    Cardinality({ k \in DOMAIN t_word_ids :
                    element_count(st, "word", t_word_ids[k]) >= 1 })

\* _make_text_effect(...)._value(state), in hundredths of Insight/s (tenths
\* times tenths; the branch without the factor is scaled by 10 to match).
text_effect_value(t_word_ids, st) ==
    LET translated == TranslatedSlots(t_word_ids, st)
        base_rate  == translated * INSIGHT_PER_TRANSLATED_WORD
    IN  IF element_count(st, "upgrade", "upg_text_efficiency") >= 1
        THEN base_rate * TEXT_EFFICIENCY_MULT
        ELSE base_rate * 10

\* A successful purchase of an element with max_count = 1.
Bought(st, kind, id) == [ st EXCEPT ![kind] = DictPut(@, id, 1) ]

\* _words_translated_in_root(state, language, root_id)
words_translated_in_root(st, root_id) ==
    Cardinality({ k \in DOMAIN model.roots[root_id].word_ids :
                    element_count(st, "word", model.roots[root_id].word_ids[k]) >= 1 })

\* Variant: the callback counts every call.
grant_discount_again(st, root_id) ==
    [ st EXCEPT !.discount =
        DictPut(@, root_id, element_count(st, "discount", root_id) + 1) ]

\* _grant_discount(state) of the milestone of root_id.
grant_discount(st, root_id) ==
    IF element_count(st, "discount", root_id) = 0
    THEN [ st EXCEPT !.discount = DictPut(@, root_id, 1) ]
    ELSE st

\* Variant: the text elements are built with an empty requirement list.
no_requirement(st, text) == TRUE

\* The requirement of a text element: none for threshold 0, otherwise
\* _total_words_translated(s, l) >= thresh.
requirement_met(st, text) ==
    text.unlock_threshold > 0 =>
       total_words_translated(st) >= text.unlock_threshold

\* The engine evaluates the root milestones: a trigger that holds records
\* the milestone and runs its callback.  Whether a milestone already
\* reached is run again is the engine's business (refire).
RECURSIVE RunMilestones(_, _, _)
RunMilestones(st, root_list, refire) ==
    IF root_list = << >> THEN st
    ELSE LET root == Head(root_list)
             hit  == /\ words_translated_in_root(st, root.id) >= root.discovery_threshold
                     /\ (refire \/ root.id \notin st.milestones)
             st2  == IF hit
                     THEN grant_discount([ st EXCEPT !.milestones = @ \cup { root.id } ],
                                         root.id)
                     ELSE st
         IN  RunMilestones(st2, Tail(root_list), refire)

\* _auto_unlock_texts: try_purchase of every text not owned yet; the texts
\* are free, so the purchase succeeds when the requirement is met.
RECURSIVE AutoUnlockTexts(_, _)
AutoUnlockTexts(st, text_list) ==
    IF text_list = << >> THEN st
    ELSE LET text == Head(text_list)
             st2  == IF element_count(st, "text", text.id) = 0 /\ requirement_met(st, text)
                     THEN Bought(st, "text", text.id)
                     ELSE st
         IN  AutoUnlockTexts(st2, Tail(text_list))

\* GamePresenter.__init__: a fresh runtime, then the purchase of the first
\* text if it is not owned.
Presented ==
    LET first_text == model.text_list[1]
    IN  IF element_count(NewGameState, "text", first_text.id) = 0
           /\ requirement_met(NewGameState, first_text)
        THEN Bought(NewGameState, "text", first_text.id)
        ELSE NewGameState

\* The words of CfgGame as the word loop leaves them, for one outcome of the
\* meaning shuffles and the glyph draws.
GameWords ==
    << Word(0, NoRoot, << 0 >>, "fire", "common", BaseCost(0, 2, 80, 250)),
       Word(1, NoRoot, << 0, 0 >>, "water", "common", BaseCost(1, 2, 80, 250)),
       Word(2, NoRoot, << 0, 0, 0 >>, "gather", "everyday", BaseCost(0, 1, 500, 2000)),
       Word(3, NoRoot, << 0, 0, 0, 0 >>, "theorem", "academic",
            BaseCost(0, 1, 4000, 15000)),
       Word(4, NoRoot, << 0, 0, 0, 0, 0 >>, "oracle", "rare",
            BaseCost(0, 1, 20000, 60000)) >>

\* Some outcomes of rng.shuffle(all_words): the rotations of the list.
GameShuffles ==
    { [ k \in 1..Len(GameWords) |-> GameWords[((k + r - 1) % Len(GameWords)) + 1] ] :
        r \in 0..(Len(GameWords) - 1) }

\* Some outcomes of the slot draws of the two texts.  Each leaves no orphan,
\* so coverage repair returns the texts as composed.
GameSlots ==
    { << << 0, 1, 2 >>, << 3, 4, 0 >> >>,
      << << 1, 1, 4 >>, << 2, 3, 0 >> >>,
      << << 0, 3, 1 >>, << 2, 2, 4 >> >> }

\* The model generate_language returns for these outcomes.
GameLanguage(shuffled, slots) ==
    LET sorted == SortByCost(StampRoots(shuffled))
        rs     == BuildRoots(shuffled)
        base   == [ EmptyModel EXCEPT !.words = DictOf(sorted), !.word_list = sorted,
                                      !.roots = DictOf(rs), !.root_list = rs ]
        text0  == Text(0, TextName(0), slots[1], TextCategory(0), Unlock(0))
        text1  == Text(1, TextName(1), slots[2], TextCategory(1), Unlock(1))
    IN  StoreText(StoreText(base, text0), text1)

\* GamePresenter(language): the language is a returned model, the locals of
\* the finished generate_language call play no part any more.
GameInit ==
    /\ cfg = CfgGame
    /\ pc = "done"
    /\ \E shuffled \in GameShuffles, slots \in GameSlots :
          model = GameLanguage(shuffled, slots)
    /\ all_words = model.word_list
    /\ roots = model.root_list
    /\ word_index = Len(GameWords)
    /\ used_meanings = {}
    /\ used_glyphs = {}
    /\ ci = 1
    /\ unique_meanings = << >>
    /\ i = 0
    /\ glyph_count = 0
    /\ attempt = 0
    /\ ti = 0
    /\ slot_count = 0
    /\ text_word_ids = << >>
    /\ orphaned = << >>
    /\ remaining = << >>
    /\ replaceable = << >>
    /\ rk = 0
    /\ word_ids = << >>
    /\ word_text_count = << >>
    /\ raised = "none"
    /\ last_draw = "slots"
    /\ state = Presented

\* try_purchase(word.id) succeeds: words are one-time purchases.
PurchaseWord ==
    /\ pc = "done"
    /\ \E k \in DOMAIN model.word_list :
          /\ element_count(state, "word", model.word_list[k].id) = 0
          /\ state' = Bought(state, "word", model.word_list[k].id)
    /\ UNCHANGED generation

\* try_purchase(upg["id"]) succeeds for the text efficiency upgrade.
PurchaseUpgrade ==
    /\ pc = "done"
    /\ element_count(state, "upgrade", "upg_text_efficiency") = 0
    /\ state' = Bought(state, "upgrade", "upg_text_efficiency")
    /\ UNCHANGED generation

\* try_purchase(text.id) succeeds: the text is not owned and its requirement
\* is met.
PurchaseText ==
    /\ pc = "done"
    /\ \E k \in DOMAIN model.text_list :
          LET text == model.text_list[k]
          IN  /\ element_count(state, "text", text.id) = 0
              /\ requirement_met(state, text)
              /\ state' = Bought(state, "text", text.id)
    /\ UNCHANGED generation

\* GamePresenter.tick: the engine's tick with its milestone evaluation, then
\* _auto_unlock_texts.
Tick ==
    /\ pc = "done"
    /\ \E refire \in BOOLEAN :
          state' = AutoUnlockTexts(RunMilestones(state, model.root_list, refire),
                                   model.text_list)
    /\ UNCHANGED generation

GameNext ==
    \/ PurchaseWord
    \/ PurchaseUpgrade
    \/ PurchaseText
    \/ Tick

GameSpec == GameInit /\ [][GameNext]_vars

---------------------------------------------------------------------------
(* Properties                                                             *)

WordIds == Range(Ids(model.word_list))

AllWordsCovered == Covered(model.text_list) = WordIds

\* The texts always offer at least as many slots as there are words, as in
\* the shipped tables (4 texts of at least 8 slots, 30 words).
SlotsSuffice(c) == c.TEXT_COUNT * c.TEXT_WORD_SLOTS_RANGE[1] >= TotalWords(c)

\* C2: when the texts have at least as many slots as there are words (the
\* default configuration: 4 * 8 >= 30), the returned model's texts together
\* hold every word id, whatever the draws were.
C2_FullCoverage ==
    (pc = "done" /\ SlotsSuffice(cfg)) => AllWordsCovered

\* A run with enough slots in which composition left orphans and both the
\* orphan shuffle and pass 2 were needed to place them.
C2_Witness ==
    /\ pc = "done"
    /\ SlotsSuffice(cfg)
    /\ orphaned # << >>
    /\ word_text_count # << >>
    /\ remaining = << >>
    /\ AllWordsCovered

\* The texts as repair sees them: the stored texts, with the text being
\* repaired replaced by its local slot list.
EffTexts ==
    IF pc \in { "pass1slot", "pass2slot" }
    THEN [ model.text_list EXCEPT ![ti + 1].word_ids = word_ids ]
    ELSE model.text_list

RepairPcs == { "pass1", "pass1slot", "pass2", "pass2slot" }

CoveredNow == Covered(EffTexts)

KeepsCovered == pc \in RepairPcs => CoveredNow \subseteq CoveredNow'

\* C3: no step of coverage repair (a substitution of pass 1 or pass 2, or
\* the storing of a repaired text) removes a word's last reference: every
\* id held by some text before the step is held by some text after it.
C3_NoNewOrphan == [][KeepsCovered]_vars

DiffSlots(a, b) == Cardinality({ k \in DOMAIN a : a[k] # b[k] })

\* Pass 2 has just made its first substitution, in the first text, after
\* pass 1 had placed at least one orphan.
C3_Witness ==
    /\ pc = "pass2slot"
    /\ ti = 0
    /\ DiffSlots(word_ids, model.text_list[1].word_ids) = 1
    /\ Len(orphaned) - Len(remaining) >= 2

NoRedundantReference ==
    /\ \A t \in DOMAIN model.text_list :
          \A a, b \in DOMAIN model.text_list[t].word_ids :
             a # b => model.text_list[t].word_ids[a] # model.text_list[t].word_ids[b]
    /\ \A id \in Covered(model.text_list) :
          Cardinality({ t \in DOMAIN model.text_list :
                          id \in Range(model.text_list[t].word_ids) }) = 1

\* C4: when generation returns, either every word is held by some text or no
\* redundant reference is left: no text holds an id twice and no id is held
\* by two texts.
C4_RepairMaximal ==
    pc = "done" => (AllWordsCovered \/ NoRedundantReference)

\* Both passes placed what they could and an orphan is still left over.
C4_Witness ==
    /\ pc = "done"
    /\ ~AllWordsCovered
    /\ word_text_count # << >>
    /\ Len(remaining) < Len(orphaned)
    /\ NoRedundantReference

\* C5: no two distinct words of a returned model have the same meaning,
\* whatever their categories.
C5_MeaningsUnique ==
    pc = "done" =>
       \A a, b \in DOMAIN model.word_list :
          a # b => model.word_list[a].meaning # model.word_list[b].meaning

\* The meaning shared by two pools was taken by the earlier category, so
\* the later category had to pass over it.
C5_Witness ==
    /\ pc = "done"
    /\ \E a, b \in DOMAIN model.word_list :
          /\ model.word_list[a].category = "common"
          /\ model.word_list[a].meaning = "salt"
          /\ model.word_list[b].category = "everyday"
          /\ model.word_list[b].meaning = "gather"

\* C6: no two distinct words of a returned model have the same glyph
\* sequence, for every outcome of the draws.
C6_GlyphsUnique ==
    pc = "done" =>
       \A a, b \in DOMAIN model.word_list :
          a # b => model.word_list[a].glyph_indices # model.word_list[b].glyph_indices

CountOf(cat) ==
    Cardinality({ k \in DOMAIN model.word_list : model.word_list[k].category = cat })

\* C7: in a returned model each category has its configured number of words
\* in word_list, and words and word_list both have the configured total.
C7_CategoryCounts ==
    pc = "done" =>
       /\ \A k \in DOMAIN cfg.WORDS_PER_CATEGORY :
             CountOf(cfg.WORDS_PER_CATEGORY[k].category) = cfg.WORDS_PER_CATEGORY[k].count
       /\ Len(model.word_list) = TotalWords(cfg)
       /\ Cardinality(DOMAIN model.words) = TotalWords(cfg)

\* A returned model with categories of different sizes.
C7_Witness ==
    /\ pc = "done"
    /\ CountOf("common") = 2
    /\ CountOf("everyday") = 1
    /\ Len(model.word_list) = 3

\* C8: a returned model has min(ROOT_COUNT, total // WORDS_PER_ROOT) roots,
\* each with WORDS_PER_ROOT member ids, every member a word of the model
\* stamped with that root (so words_for_root yields WORDS_PER_ROOT words of
\* the root).
C8_RootStructure ==
    pc = "done" =>
       /\ Len(model.root_list) =
             Min(cfg.ROOT_COUNT, TotalWords(cfg) \div cfg.WORDS_PER_ROOT)
       /\ Cardinality(DOMAIN model.roots) = Len(model.root_list)
       /\ \A r \in DOMAIN model.root_list :
             LET root == model.root_list[r]
             IN  /\ Len(root.word_ids) = cfg.WORDS_PER_ROOT
                 /\ \A k \in DOMAIN root.word_ids :
                       /\ root.word_ids[k] \in DOMAIN model.words
                       /\ model.words[root.word_ids[k]].root_id = root.id
                 /\ Len(words_for_root(root.id)) = cfg.WORDS_PER_ROOT
                 /\ \A k \in DOMAIN words_for_root(root.id) :
                       words_for_root(root.id)[k].root_id = root.id

\* A returned model with several words per root whose members are not the
\* cheapest-first prefix of the word list.
C8_Witness ==
    /\ pc = "done"
    /\ Len(model.root_list) >= 1
    /\ cfg.WORDS_PER_ROOT >= 2
    /\ model.root_list[1].word_ids[1] # model.word_list[1].id

RootsHolding(id) ==
    { r \in DOMAIN model.root_list : id \in Range(model.root_list[r].word_ids) }

\* C9: in a returned model every word has a root_id that names a root of the
\* model, and every word id is a member of exactly one root.
C9_RootPartition ==
    pc = "done" =>
       \A k \in DOMAIN model.word_list :
          /\ model.word_list[k].root_id # NoRoot
          /\ model.word_list[k].root_id \in DOMAIN model.roots
          /\ Cardinality(RootsHolding(model.word_list[k].id)) = 1

\* C10: word_list of a returned model is sorted by base_cost, ascending.
C10_CostOrdering ==
    pc = "done" =>
       \A a, b \in DOMAIN model.word_list :
          a < b => model.word_list[a].base_cost <= model.word_list[b].base_cost

\* The shuffle put a word other than the cheapest first (root 0 starts with
\* it), and two of the words come from the same cost range.
C10_Witness ==
    /\ pc = "done"
    /\ Len(model.root_list) >= 1
    /\ model.root_list[1].word_ids[1] # model.word_list[1].id
    /\ CountOf("common") = 2

\* The model is complete: composition has stored the last text.
Composed == pc \in { "orphans", "done" } \cup RepairPcs

InSlotRange(n) ==
    cfg.TEXT_WORD_SLOTS_RANGE[1] <= n /\ n <= cfg.TEXT_WORD_SLOTS_RANGE[2]

\* C11: from the end of composition on (before, during and after coverage
\* repair) there are TEXT_COUNT texts, each holds a number of slots within
\* TEXT_WORD_SLOTS_RANGE, and every id in a slot is the id of a word of the
\* model; text_list and the texts map agree on this.
C11_TextShape ==
    Composed =>
       /\ Len(model.text_list) = cfg.TEXT_COUNT
       /\ Cardinality(DOMAIN model.texts) = cfg.TEXT_COUNT
       /\ \A t \in DOMAIN model.text_list :
             /\ InSlotRange(Len(model.text_list[t].word_ids))
             /\ InSlotRange(Len(model.texts[model.text_list[t].id].word_ids))
             /\ Range(model.text_list[t].word_ids) \subseteq DOMAIN model.words
             /\ Range(model.texts[model.text_list[t].id].word_ids)
                   \subseteq DOMAIN model.words

\* A returned model whose texts differ in length and whose second text was
\* rewritten by coverage repair.
C11_Witness ==
    /\ pc = "done"
    /\ Len(model.text_list) = 2
    /\ Len(model.text_list[1].word_ids) # Len(model.text_list[2].word_ids)
    /\ orphaned # << >>
    /\ remaining = << >>
    /\ \E k \in DOMAIN model.text_list[2].word_ids :
          model.text_list[2].word_ids[k] \in Range(orphaned)

\* C12: in a returned model with at least one text the first text's
\* unlock_threshold is 0 and the thresholds never decrease along text_list,
\* also when there are more texts than TEXT_UNLOCK_THRESHOLDS has entries.
C12_ThresholdOrdering ==
    (pc = "done" /\ model.text_list # << >>) =>
       /\ model.text_list[1].unlock_threshold = 0
       /\ \A a, b \in DOMAIN model.text_list :
             a < b => model.text_list[a].unlock_threshold
                         <= model.text_list[b].unlock_threshold

\* A returned model with two texts past the end of TEXT_UNLOCK_THRESHOLDS.
C12_Witness ==
    /\ pc = "done"
    /\ Len(model.text_list) = Len(TEXT_UNLOCK_THRESHOLDS) + 2
    /\ model.text_list[Len(TEXT_UNLOCK_THRESHOLDS) + 1].unlock_threshold = 32
    /\ model.text_list[Len(TEXT_UNLOCK_THRESHOLDS) + 2].unlock_threshold = 40

\* C13: every word of a returned model has a glyph sequence whose length is
\* within GLYPHS_PER_WORD of the word's category, and at least 1, and every
\* index of the sequence is in 0 .. ALPHABET_SIZE - 1.
C13_GlyphsWellFormed ==
    pc = "done" =>
       \A k \in DOMAIN model.word_list :
          LET w == model.word_list[k]
          IN  /\ Len(w.glyph_indices) >= cfg.GLYPHS_PER_WORD[w.category][1]
              /\ Len(w.glyph_indices) <= cfg.GLYPHS_PER_WORD[w.category][2]
              /\ Len(w.glyph_indices) >= 1
              /\ \A j \in DOMAIN w.glyph_indices :
                    /\ w.glyph_indices[j] >= 0
                    /\ w.glyph_indices[j] < cfg.ALPHABET_SIZE

\* A word at the upper end of its category's length range that uses the
\* last glyph of the alphabet, beside a word at the lower end.
C13_Witness ==
    /\ pc = "done"
    /\ \E a, b \in DOMAIN model.word_list :
          /\ model.word_list[a].category = "everyday"
          /\ Len(model.word_list[a].glyph_indices) = 2
          /\ model.word_list[a].glyph_indices[2] = cfg.ALPHABET_SIZE - 1
          /\ cfg.ALPHABET_SIZE >= 2
          /\ model.word_list[b].category = "common"
          /\ Len(model.word_list[b].glyph_indices) = 1

\* Exceptions that report a defect of the configuration.  generate_language
\* has no raise statement; what it raises is the IndexError of a failed
\* list access ("list index out of range").
ConfigurationErrors == { "ConfigurationError", "ValueError" }

\* The word loop asked for a meaning the category's pool could not supply.
RanShort == i < Count /\ i >= Len(unique_meanings)

MeaningsOf(words) == { words[k].meaning : k \in DOMAIN words }

\* The words of the categories before the k-th, i.e. used_meanings when the
\* k-th category started.
UsedBefore(k) ==
    MeaningsOf(SelectSeq(model.word_list,
        LAMBDA w : \E j \in 1..(k - 1) : cfg.WORDS_PER_CATEGORY[j].category = w.category))

\* C14: a category whose pool holds fewer unused meanings than its count
\* ends generation with an error that reports the configuration, and no
\* model is returned for such tables.
C14_ShortPoolFailsFast ==
    /\ (pc = "error" /\ RanShort) => raised \in ConfigurationErrors
    /\ pc = "done" =>
          \A k \in DOMAIN cfg.WORDS_PER_CATEGORY :
             Cardinality(Range(cfg.MEANINGS[cfg.WORDS_PER_CATEGORY[k].category])
                           \ UsedBefore(k)) >= cfg.WORDS_PER_CATEGORY[k].count

\* C15: tables with ROOT_COUNT * WORDS_PER_ROOT above the total number of
\* words never make generation return a model.
C15_ImpossiblePartitionRejected ==
    cfg.ROOT_COUNT * cfg.WORDS_PER_ROOT > TotalWords(cfg) => pc # "done"

DuplicateGlyphs ==
    \E a, b \in DOMAIN all_words :
       a # b /\ all_words[a].glyph_indices = all_words[b].glyph_indices

\* Fields of the result other than its six collections.
ModelFlags ==
    DOMAIN model \ { "words", "roots", "texts", "word_list", "root_list", "text_list" }

\* C16: once a duplicate glyph sequence has been accepted, generation does
\* not return a plain model: it ends in an error, or the returned model
\* carries a flag.
C16_DuplicateSurfaced ==
    (pc = "done" /\ DuplicateGlyphs) => ModelFlags # {}

Terminated == pc \in { "done", "error" }

\* C17: every run of generate_language ends, by returning or by raising;
\* the retry loop never starts an attempt past the 100th, and the repair
\* loops never look past the last text or the last slot.
C17_Terminates ==
    /\ [](attempt < GLYPH_ATTEMPTS)
    /\ [](pc \in RepairPcs => ti <= Len(model.text_list))
    /\ [](pc = "pass1slot" => rk <= Len(replaceable))
    /\ [](pc = "pass2slot" => rk <= Len(word_ids))
    /\ <>Terminated

\* A returned model for which the retry loop used up all its attempts
\* (a duplicate was accepted) and pass 2 ran out of texts with orphans left.
C17_Witness ==
    /\ pc = "done"
    /\ DuplicateGlyphs
    /\ word_text_count # << >>
    /\ remaining # << >>

\* Position of a kind of draw in the list meanings, glyphs, roots, slots,
\* orphans.
DrawRank(kind) ==
    CASE kind = "none"     -> 0
      [] kind = "meanings" -> 1
      [] kind = "glyphs"   -> 2
      [] kind = "roots"    -> 3
      [] kind = "slots"    -> 4
      [] kind = "orphans"  -> 5

NoEarlierKind == DrawRank(last_draw') >= DrawRank(last_draw)

\* C18: the draws of a call come in the order meaning-pool shuffles, glyph
\* draws, root shuffle, slot draws, orphan shuffle: no draw is of a kind
\* listed before the kind of the draw that preceded it.
C18_DrawOrder == [][NoEarlierKind]_vars

\* Word generation is one stage: pool shuffles and glyph draws alternate
\* inside it.
StageRank(kind) == IF kind = "meanings" THEN 2 ELSE DrawRank(kind)

CategoryIndex(cat) ==
    CHOOSE k \in DOMAIN cfg.WORDS_PER_CATEGORY : cfg.WORDS_PER_CATEGORY[k].category = cat

\* The words created so far belong to categories before the c-th, or (if
\* `own`) to the c-th as well.
OnlyEarlierWords(c, own) ==
    \A k \in DOMAIN all_words :
       \/ CategoryIndex(all_words[k].category) < c
       \/ own /\ CategoryIndex(all_words[k].category) = c

StageOrder ==
    /\ StageRank(last_draw') >= StageRank(last_draw)
    /\ (pc = "category" /\ last_draw' = "meanings") => OnlyEarlierWords(ci, FALSE)
    /\ (pc \in { "word", "glyph" } /\ last_draw' = "glyphs") =>
          /\ last_draw \in { "meanings", "glyphs" }
          /\ OnlyEarlierWords(ci, TRUE)

\* C18 as the code has it: the draws come stage by stage (word generation,
\* root shuffle, slot draws, orphan shuffle) and no draw of an earlier stage
\* follows a draw of a later one; inside word generation each category's
\* pool shuffle comes after the glyph draws of the categories before it and
\* before its own glyph draws.
C18_DrawOrderByCategory == [][StageOrder]_vars

\* A returned model of two or more categories for which every kind of draw
\* was made, the orphan shuffle last.
C18_Witness ==
    /\ pc = "done"
    /\ last_draw = "orphans"
    /\ Len(cfg.WORDS_PER_CATEGORY) >= 2
    /\ model.text_list # << >>
    /\ model.root_list # << >>

FirstPosition(ids, wid) == Positions(ids, wid)[1]

\* C19: for every text of the model, unique_words_in_text yields the Word of
\* each distinct id of the text's slots exactly once, ordered by the id's
\* first slot: no id twice, only ids of the text, every id of the text.
C19_UniqueWordsInText ==
    \A text_id \in DOMAIN model.texts :
       LET ids    == model.texts[text_id].word_ids
           result == unique_words_in_text(text_id)
       IN  /\ \A a, b \in DOMAIN result : a # b => result[a].id # result[b].id
           /\ \A a \in DOMAIN result :
                 /\ result[a].id \in Range(ids)
                 /\ result[a] = model.words[result[a].id]
           /\ Range(ids) \subseteq Range(Ids(result))
           /\ \A a, b \in DOMAIN result :
                 a < b => FirstPosition(ids, result[a].id) < FirstPosition(ids, result[b].id)

\* A stored text of three slots that repeats an id; its two distinct words
\* come back in slot order, which is not the order of the word list.
C19_Witness ==
    \E text_id \in DOMAIN model.texts :
       /\ Len(model.texts[text_id].word_ids) = 3
       /\ Len(unique_words_in_text(text_id)) = 2
       /\ unique_words_in_text(text_id)[1].id > unique_words_in_text(text_id)[2].id

WithoutUpgrade(st) == [ st EXCEPT !.upgrade = << >> ]

\* C20: for an owned text with a translated word in its slots, the text
\* yields strictly more Insight per second with upg_text_efficiency owned
\* than the same state yields without it.
C20_EfficiencyRaisesProduction ==
    \A k \in DOMAIN model.text_list :
       LET t_word_ids == model.text_list[k].word_ids
       IN  ( /\ pc = "done"
             /\ element_count(state, "text", model.text_list[k].id) >= 1
             /\ TranslatedSlots(t_word_ids, state) >= 1
             /\ element_count(state, "upgrade", "upg_text_efficiency") >= 1 )
           => text_effect_value(t_word_ids, state)
                 > text_effect_value(t_word_ids, WithoutUpgrade(state))

Triggered(st, root) ==
    words_translated_in_root(st, root.id) >= root.discovery_threshold

DiscountAtMostOnce ==
    \A r \in DOMAIN model.root_list :
       /\ element_count(state, "discount", model.root_list[r].id) <= 1
       /\ model.root_list[r].id \in state.milestones =>
             element_count(state, "discount", model.root_list[r].id) = 1

TickGrants ==
    Tick => \A r \in DOMAIN model.root_list :
               Triggered(state, model.root_list[r]) =>
                  element_count(state', "discount", model.root_list[r].id) = 1

\* C21: a tick that finds discovery_threshold or more of a root's words
\* translated leaves discount_<root> at count 1, and the count is never
\* above 1, however often the milestone's callback runs.
C21_RootDiscovery == []DiscountAtMostOnce /\ [][TickGrants]_vars

\* The root's discount is granted, all of the root's words are translated
\* and a further word besides: ticks went on after the grant.
C21_Witness ==
    /\ pc = "done"
    /\ \E r \in DOMAIN model.root_list :
          /\ element_count(state, "discount", model.root_list[r].id) = 1
          /\ model.root_list[r].id \in state.milestones
          /\ words_translated_in_root(state, model.root_list[r].id)
                > model.root_list[r].discovery_threshold - 1
    /\ total_words_translated(state) = Len(model.word_list)
    /\ element_count(state, "text", 1) = 1

\* C22: in every state of the game a text with a positive unlock_threshold
\* is owned only if at least that many words are translated, and a text
\* with threshold 0 is owned from the construction of the presenter on.
C22_TextUnlockGating ==
    \A k \in DOMAIN model.text_list :
       LET text == model.text_list[k]
       IN  /\ (text.unlock_threshold > 0 /\ element_count(state, "text", text.id) >= 1)
                => total_words_translated(state) >= text.unlock_threshold
           /\ text.unlock_threshold = 0 => element_count(state, "text", text.id) = 1

\* The second text is owned, with exactly its threshold of words translated.
C22_Witness ==
    /\ pc = "done"
    /\ Len(model.text_list) = 2
    /\ model.text_list[2].unlock_threshold = 5
    /\ element_count(state, "text", model.text_list[2].id) = 1
    /\ total_words_translated(state) = 5

\* Before the shuffle all_words is in creation order: the index of a word
\* inside its category is the number of words of the category before it.
IndexInCategory(k) ==
    Cardinality({ j \in 1..(k - 1) : all_words[j].category = all_words[k].category })

CountFor(cat) == cfg.WORDS_PER_CATEGORY[CategoryIndex(cat)].count

\* c is x / d truncated, for x >= 0 and d > 0.
IsTruncated(c, x, d) == c * d <= x /\ x < (c + 1) * d

\* C23: the i-th word created for a category of n > 1 words costs
\* lo + i * (hi - lo) / (n - 1) truncated: lo for the first word, hi for the
\* last, never less than the word before it; the only word of a category
\* costs lo + (hi - lo) / 2 truncated.
C23_CostInterpolation ==
    pc \in { "cost", "costed" } =>
       \A k \in DOMAIN all_words :
          LET w   == all_words[k]
              n   == CountFor(w.category)
              idx == IndexInCategory(k)
              lo  == WORD_COST_RANGES[w.category][1]
              hi  == WORD_COST_RANGES[w.category][2]
          IN  IF n > 1
              THEN /\ IsTruncated(w.base_cost - lo, idx * (hi - lo), n - 1)
                   /\ idx = 0 => w.base_cost = lo
                   /\ idx = n - 1 => w.base_cost = hi
                   /\ idx > 0 => all_words[k - 1].base_cost <= w.base_cost
              ELSE IsTruncated(w.base_cost - lo, hi - lo, 2)

\* All words of the shipped tables have their cost, among them one whose
\* cost is not a whole fraction of the range (rare: 20000 + 40000 / 3).
C23_Witness ==
    /\ pc = "costed"
    /\ cfg = CfgDefault
    /\ \E k \in DOMAIN all_words :
          /\ all_words[k].category = "rare"
          /\ IndexInCategory(k) = 1
          /\ all_words[k].base_cost = 33333

\* The word_ids of the text pass 1 is working on, as composition left them.
composed_word_ids == model.text_list[ti + 1].word_ids

\* The slots of ids whose id already occurs further left in the same list.
RepeatedSlots(ids) ==
    { p \in DOMAIN ids : \E q \in 1..(p - 1) : ids[q] = ids[p] }

ChangedSlots == { p \in DOMAIN word_ids : word_ids[p] # composed_word_ids[p] }

\* The number of slots, over all texts, that hold id.
SlotsHolding(texts, id) ==
    Cardinality(UNION { { << t, p >> : p \in { q \in DOMAIN texts[t].word_ids :
                                                  texts[t].word_ids[q] = id } } :
                        t \in DOMAIN texts })

Pass1Substitutions ==
    pc = "pass1slot" =>
       /\ Len(word_ids) = Len(composed_word_ids)
       /\ Range(replaceable) = RepeatedSlots(composed_word_ids)
       /\ ChangedSlots \subseteq RepeatedSlots(composed_word_ids)
       /\ Cardinality(ChangedSlots) = rk
       /\ \A p \in ChangedSlots :
             /\ word_ids[p] \in Range(orphaned) \ Range(remaining)
             /\ \A q \in ChangedSlots : q # p => word_ids[q] # word_ids[p]
       /\ \A o \in Range(orphaned) : SlotsHolding(EffTexts, o) <= 1

\* The slot loop of a text is left only with its repeated slots all visited
\* or with the orphan queue empty.
Pass1Stops ==
    (pc = "pass1slot" /\ pc' = "pass1") =>
       (rk = Len(replaceable) \/ remaining = << >>)

\* C24: pass 1 substitutes only in slots whose id already occurs further
\* left in the same text, so the first occurrence of every id stays in
\* place; every substituted slot holds an orphan taken off the queue, no two
\* slots the same one and no orphan in two slots of the texts; the slot
\* loop of a text ends only when its repeated slots or the queue are used up.
C24_Pass1NonFirstOnly == []Pass1Substitutions /\ [][Pass1Stops]_vars

\* Pass 1 has filled the only repeated slot of a text, whose first slot
\* keeps its id, and orphans are still queued.
C24_Witness ==
    /\ pc = "pass1slot"
    /\ rk = 1
    /\ rk = Len(replaceable)
    /\ ChangedSlots # {}
    /\ remaining # << >>


\* Everything of a text but the contents of its slots.
TextFrame(text) ==
    [ id |-> text.id, display_name |-> text.display_name,
      category |-> text.category, unlock_threshold |-> text.unlock_threshold,
      slots |-> Len(text.word_ids) ]

RepairFrame ==
    pc \in RepairPcs =>
       /\ model'.words = model.words
       /\ model'.word_list = model.word_list
       /\ model'.roots = model.roots
       /\ model'.root_list = model.root_list
       /\ all_words' = all_words
       /\ DOMAIN model'.text_list = DOMAIN model.text_list
       /\ DOMAIN model'.texts = DOMAIN model.texts
       /\ \A t \in DOMAIN model.text_list :
             /\ TextFrame(model'.text_list[t]) = TextFrame(model.text_list[t])
             /\ t # ti + 1 => model'.text_list[t] = model.text_list[t]
       /\ \A id \in DOMAIN model.texts :
             /\ TextFrame(model'.texts[id]) = TextFrame(model.texts[id])
             /\ (\A t \in DOMAIN model.text_list :
                    model.text_list[t].id = id => t # ti + 1)
                => model'.texts[id] = model.texts[id]

\* C25: a step of coverage repair changes nothing but the contents of the
\* slots of the text being repaired: that text keeps its id, display name,
\* category, unlock threshold, number of slots and place in text_list, and
\* no word, root or other text changes.
C25_RepairFrame == [][RepairFrame]_vars

\* The second text has been stored with new slot contents.
C25_Witness ==
    /\ pc \in { "pass1", "pass2" }
    /\ ti = 2
    /\ Range(model.text_list[2].word_ids) \cap Range(orphaned) # {}
    /\ Range(model.text_list[1].word_ids) \cap Range(orphaned) # {}


\* The id-keyed map holds exactly the entities of the list, each under its id.
SameEntities(map, list) ==
    /\ DOMAIN map = { list[k].id : k \in DOMAIN list }
    /\ \A k \in DOMAIN list : map[list[k].id] = list[k]

\* C26: in the returned model and after every step of coverage repair,
\* words / word_list, roots / root_list and texts / text_list hold the same
\* entities: the map entry of every listed entity's id is that entity, and
\* the map has no other key.
C26_MapListConsistency ==
    Composed =>
       /\ SameEntities(model.words, model.word_list)
       /\ SameEntities(model.roots, model.root_list)
       /\ SameEntities(model.texts, model.text_list)

\* The model is returned after repair stored a text with new slot contents.
C26_Witness ==
    /\ pc = "done"
    /\ Len(orphaned) > Len(remaining)
    /\ Len(model.text_list) >= 2
    /\ Len(model.root_list) >= 1


IdSet(list) == { list[k].id : k \in DOMAIN list }

\* The id appended to the text being composed by this step.
DrawnId == text_word_ids'[Len(text_word_ids')]

SlotFromPool ==
    pc = "slot" =>
       LET cat == IdSet(category_words(ti))
           oth == IdSet(other_words(ti))
       IN  /\ (cat # {} \/ oth # {}) =>
                 /\ pc' # "error"
                 /\ text_word_ids' = Append(text_word_ids, DrawnId)
                 /\ DrawnId \in cat \cup oth
                 /\ cat = {} => DrawnId \in oth
                 /\ oth = {} => DrawnId \in cat
           /\ (cat = {} /\ oth = {}) =>
                 /\ all_words = << >>
                 /\ pc' = "error"
                 /\ raised' = "IndexError"

\* C27: a slot takes a word of the text's category only when there is one;
\* when there is none every slot takes a word of another category, when
\* there is no word of another category every slot takes a word of the
\* text's category, and when there is neither the draw is made from the
\* full word list (which is then empty, so the draw raises).
C27_SlotPoolFallback == [][SlotFromPool]_vars

\* Two texts were composed from words of one category: the first had no
\* word of another category to draw, the second none of its own.
C27_Witness ==
    /\ cfg = CfgOneKind
    /\ pc = "done"
    /\ Len(model.text_list) = 2
    /\ other_words(0) = << >>
    /\ category_words(1) = << >>
    /\ Len(model.text_list[2].word_ids) = 2


\* No text holds an id in two slots.
NoRepeatInText(texts) ==
    \A t \in DOMAIN texts :
       \A a, b \in DOMAIN texts[t].word_ids :
          a # b => texts[t].word_ids[a] # texts[t].word_ids[b]

\* The number of texts that hold id.
TextsHolding(texts, id) ==
    Cardinality({ t \in DOMAIN texts : id \in Range(texts[t].word_ids) })

\* C28: from the start of pass 2 to its end no text holds an id in two
\* slots, and word_text_count gives, for every id, the number of texts that
\* hold it (with the substitutions made so far in the text at hand).
C28_Pass2CountsExact ==
    pc \in { "pass2", "pass2slot" } =>
       /\ NoRepeatInText(EffTexts)
       /\ DOMAIN word_text_count = Covered(EffTexts)
       /\ \A id \in DOMAIN word_text_count :
             word_text_count[id] = TextsHolding(EffTexts, id)

\* Pass 2 has moved an orphan into the slot of a donor: the donor's count
\* went down and the orphan has a count of one.
C28_Witness ==
    /\ pc = "pass2slot"
    /\ rk >= 1
    /\ word_ids # model.text_list[ti + 1].word_ids
    /\ \E o \in Range(orphaned) :
          /\ o \in Range(word_ids)
          /\ DictGet(word_text_count, o, 0) = 1


\* The category of the k-th word (1-based) in generation order under cfg.
RECURSIVE CategoryAt(_, _)
CategoryAt(k, c) ==
    IF k <= cfg.WORDS_PER_CATEGORY[c].count
    THEN cfg.WORDS_PER_CATEGORY[c].category
    ELSE CategoryAt(k - cfg.WORDS_PER_CATEGORY[c].count, c + 1)

NothingToRepair ==
    (pc = "orphans" /\ Orphans(all_words, model.text_list) = << >>) =>
       /\ pc' = "done"
       /\ last_draw' = last_draw
       /\ model' = model
       /\ remaining' = remaining

\* C30: when composition has left no word without a text, coverage repair
\* returns at once: nothing is drawn from the random stream and the texts
\* are those of composition, slot for slot.
C30_RepairNoOp == [][NothingToRepair]_vars

\* A model of two texts and three words is returned that never needed
\* repair: the last draw was a slot of the last text.
C30_Witness ==
    /\ pc = "done"
    /\ AllWordsCovered
    /\ orphaned = << >>
    /\ last_draw = "slots"
    /\ Len(model.text_list) = 2
    /\ Len(model.word_list) = 3

=============================================================================
